---- MODULE Spec2Model ----
(***************************************************************************)
(* Model of ungraspable/robosuite_env/base_env.py: the per-reset domain    *)
(* randomization of BaseEnv (occlusion mode, size/clearance profile,       *)
(* sampled physical parameters, placement bounds).                         *)
(*                                                                         *)
(* Real numbers are represented as integers in units of 1e-4, so 0.45 is   *)
(* 4500, 0.075 is 750 and 1e-4 is 1.  Object density is kept in its own    *)
(* unit (86 is 86).  The instance is the record `self`, whose fields carry *)
(* the attribute names of the source.                                      *)
(***************************************************************************)
EXTENDS Integers, Sequences, FiniteSets, TLC

VARIABLES
    self,            \* the BaseEnv instance (its attributes)
    requested_mode,  \* the occlusion_type argument given to __init__
    outcome,         \* "ok": the last operation was a reset that completed;
                     \* "ValueError": it was a reset that raised;
                     \* "stale": an attribute was assigned since the last reset
    back_to_back,    \* the last two operations were both resets that completed
    nassign          \* attribute assignments made so far

vars == <<self, requested_mode, outcome, back_to_back, nassign>>

\* ---------------------------------------------------------------- bounds

\* grid points per continuous uniform draw
USteps == 2

\* attribute assignments per behaviour
MaxAssign == 1

\* ------------------------------------------------------- numpy primitives

Min(a, b) == IF a <= b THEN a ELSE b

Max(a, b) == IF a <= b THEN b ELSE a

\* np.random.uniform(low, high): low + (high - low) * u for u in [0, 1).
\* numpy does not reject low > high; the draw then lies in (high, low].
Uniform(low, high) ==
    { low + ((high - low) * k) \div USteps : k \in 0..(USteps - 1) }

\* randint with the upper end included
randint_inclusive(low, high) ==
    low..high

\* np.random.randint(low, high): an integer of [low, high); the empty set
\* stands for the ValueError numpy raises when low >= high.
randint(low, high) ==
    low..(high - 1)

\* --------------------------------------------------------------- __init__

RecognizedModes == {"ground", "side", "none"}

\* occlusion_type strings a caller may pass; "top" is not a recognized mode
ModeStrings == RecognizedModes \cup {"top"}

ControllerKeys == {"max_translation", "max_rotation"}

\* init_box_size with the clearance profile of 'none' given to 'none' alone
init_box_size_other_as_side(s) ==
    LET t == [s EXCEPT !.object_size_x_min = IF s.occlusion_type = "ground" THEN 1500 ELSE 600,
                       !.object_size_x_max = IF s.occlusion_type = "ground" THEN 1500 ELSE 600,
                       !.object_size_x_val = IF s.occlusion_type = "ground" THEN 1500 ELSE 600,
                       !.object_size_y_min = 2000, !.object_size_y_max = 2000,
                       !.object_size_y_val = 2000,
                       !.object_size_z_min = IF s.occlusion_type = "ground" THEN 500 ELSE 600,
                       !.object_size_z_max = IF s.occlusion_type = "ground" THEN 500 ELSE 600,
                       !.object_size_z_val = IF s.occlusion_type = "ground" THEN 500 ELSE 600]
    IN  IF s.occlusion_type = "none"
        THEN [t EXCEPT !.object_to_wall_dist_min = 500,
                       !.object_to_wall_dist_max = 1000]
        ELSE [t EXCEPT !.object_to_wall_dist_min = 0,
                       !.object_to_wall_dist_max = 0]

\* BaseEnv.init_box_size: the size / clearance profile of self.occlusion_type
init_box_size(s) ==
    IF s.occlusion_type = "ground"
    THEN [s EXCEPT !.object_size_x_min = 1500, !.object_size_x_max = 1500,
                   !.object_size_x_val = 1500,
                   !.object_size_y_min = 2000, !.object_size_y_max = 2000,
                   !.object_size_y_val = 2000,
                   !.object_size_z_min = 500, !.object_size_z_max = 500,
                   !.object_size_z_val = 500,
                   !.object_to_wall_dist_min = 0,
                   !.object_to_wall_dist_max = 0]
    ELSE LET t == [s EXCEPT !.object_size_x_min = 600, !.object_size_x_max = 600,
                            !.object_size_x_val = 600,
                            !.object_size_y_min = 2000, !.object_size_y_max = 2000,
                            !.object_size_y_val = 2000,
                            !.object_size_z_min = 600, !.object_size_z_max = 600,
                            !.object_size_z_val = 600]
         IN  IF s.occlusion_type = "side"
             THEN [t EXCEPT !.object_to_wall_dist_min = 0,
                            !.object_to_wall_dist_max = 0]
             ELSE [t EXCEPT !.object_to_wall_dist_min = 500,
                            !.object_to_wall_dist_max = 1000]

\* The attributes __init__ sets before it calls super().__init__().  The
\* size / clearance attributes get a placeholder here and their value from
\* init_box_size (line 214).  controller_cfg is the controller configuration
\* the caller passed: a function from the keys it declares to their values.
Construct(occlusion_type, use_random_occlusion, controller_cfg) ==
    init_box_size(
      [ table_full_size |-> <<4500, 5400, 1070>>,
        table_friction |-> <<3000, 50, 1>>,
        table_offset |-> <<5000, 0, 650>>,
        placement_initializer |-> "None",
        object_initial_pose_y_min |-> 0,
        object_initial_pose_y_max |-> 0,
        table_offset_x_min |-> 5000,
        table_offset_x_max |-> 5000,
        table_offset_z_min |-> 650,
        table_offset_z_max |-> 650,
        use_random_occlusion |-> use_random_occlusion,
        occlusion_type |-> occlusion_type,
        object_size_x_min |-> 0, object_size_x_max |-> 0, object_size_x_val |-> 0,
        object_size_y_min |-> 0, object_size_y_max |-> 0, object_size_y_val |-> 0,
        object_size_z_min |-> 0, object_size_z_max |-> 0, object_size_z_val |-> 0,
        object_to_wall_dist_min |-> 0,
        object_to_wall_dist_max |-> 0,
        object_density_min |-> 86,
        object_density_max |-> 86,
        object_density_val |-> 86,
        table_friction_min |-> 3000,
        table_friction_max |-> 3000,
        table_friction_val |-> 3000,
        gripper_friction_min |-> 30000,
        gripper_friction_max |-> 30000,
        gripper_friction_val |-> 30000,
        controller_max_translation_max |-> 300,
        controller_max_translation_min |-> 300,
        controller_max_rotation_max |-> 2000,
        controller_max_rotation_min |-> 2000,
        \* set by the first _load_model / _load_robots / _reset_internal
        controller_config |-> controller_cfg,
        gripper_friction |-> <<30000, 150, 3>>,
        cube |-> "None",
        model |-> "None",
        cube_pos |-> "None" ] )

\* ------------------------------------------------------------ _load_robots

\* BaseEnv._load_robots: samples the gripper friction for the new robot
LoadRobots(s) ==
    { [s EXCEPT !.gripper_friction_val = v,
                !.gripper_friction = <<v, 150, 3>>] :
        v \in Uniform(s.gripper_friction_min, s.gripper_friction_max) }

\* ------------------------------------------------------------- _load_model

\* lines 295-296: the occlusion mode of the episode
ResolveOcclusion(s) ==
    IF s.use_random_occlusion
    THEN { [s EXCEPT !.occlusion_type = m] : m \in {"ground", "side", "none"} }
    ELSE { s }

\* SampleController with the rotation limit nested under the translation key
SampleController_nested(s) ==
    LET cc == s.controller_config
    IN  IF "max_translation" \in DOMAIN cc
        THEN { [s EXCEPT !.controller_config =
                  IF "max_rotation" \in DOMAIN cc
                  THEN [cc EXCEPT !["max_translation"] = v, !["max_rotation"] = w]
                  ELSE [cc EXCEPT !["max_translation"] = v]] :
                 v \in Uniform(s.controller_max_translation_min,
                               s.controller_max_translation_max),
                 w \in Uniform(s.controller_max_rotation_min,
                               s.controller_max_rotation_max) }
        ELSE { s }

\* lines 302-307: each controller limit is written only if its key is declared
SampleController(s) ==
    LET cc == s.controller_config
        T  == IF "max_translation" \in DOMAIN cc
              THEN { [cc EXCEPT !["max_translation"] = v] :
                       v \in Uniform(s.controller_max_translation_min,
                                     s.controller_max_translation_max) }
              ELSE { cc }
        R(c) == IF "max_rotation" \in DOMAIN c
                THEN { [c EXCEPT !["max_rotation"] = v] :
                         v \in Uniform(s.controller_max_rotation_min,
                                       s.controller_max_rotation_max) }
                ELSE { c }
    IN  { [s EXCEPT !.controller_config = c2] : c2 \in UNION { R(c) : c \in T } }

\* lines 310-315: table friction (first coefficient) and table offset (x, z)
SampleTable(s) ==
    { [s EXCEPT !.table_friction_val = f,
                !.table_friction[1] = f,
                !.table_offset[1] = ox,
                !.table_offset[3] = oz] :
        f \in Uniform(s.table_friction_min, s.table_friction_max),
        ox \in Uniform(s.table_offset_x_min, s.table_offset_x_max),
        oz \in Uniform(s.table_offset_z_min, s.table_offset_z_max) }

\* lines 331-346: the material follows whether the mode is 'ground'
Material(s) ==
    IF s.occlusion_type = "ground" THEN "redwood_mat" ELSE "bluewood_mat"

\* SampleSize with z drawn from the x range
SampleSize_z_from_x(s) ==
    { [s EXCEPT !.object_size_x_val = x,
                !.object_size_y_val = y,
                !.object_size_z_val = z] :
        x \in Uniform(s.object_size_x_min, s.object_size_x_max),
        y \in Uniform(s.object_size_y_min, s.object_size_y_max),
        z \in Uniform(s.object_size_x_min, s.object_size_x_max) }

\* lines 348-350: the object size
SampleSize(s) ==
    { [s EXCEPT !.object_size_x_val = x,
                !.object_size_y_val = y,
                !.object_size_z_val = z] :
        x \in Uniform(s.object_size_x_min, s.object_size_x_max),
        y \in Uniform(s.object_size_y_min, s.object_size_y_max),
        z \in Uniform(s.object_size_z_min, s.object_size_z_max) }

\* line 351: the draws of the object density; empty when randint raises
DensityDraws(s) ==
    randint(s.object_density_min, s.object_density_max + 1)

\* lines 353-362: the box; size_min = size_max, so its size is the half size
Cube(s, d) ==
    [ size |-> << s.object_size_x_val \div 2,
                  s.object_size_y_val \div 2,
                  s.object_size_z_val \div 2 >>,
      material |-> Material(s),
      density |-> d ]

\* PlacementInitializer with xpos_max taken from the full size, not the half size
PlacementInitializer_full_size(s, cube) ==
    LET xpos_max == s.table_full_size[1] \div 2 - s.object_size_x_val
    IN  [ x_range |-> << xpos_max - s.object_to_wall_dist_max,
                         xpos_max - s.object_to_wall_dist_min >>,
          y_range |-> << s.object_initial_pose_y_min,
                         s.object_initial_pose_y_max >>,
          rotation |-> 0,
          ensure_object_boundary_in_range |-> FALSE,
          ensure_valid_placement |-> FALSE,
          z_offset |-> 0 ]

\* lines 365-376: the placement sampler built for the cube
PlacementInitializer(s, cube) ==
    LET xpos_max == s.table_full_size[1] \div 2 - cube.size[1]
    IN  [ x_range |-> << xpos_max - s.object_to_wall_dist_max,
                         xpos_max - s.object_to_wall_dist_min >>,
          y_range |-> << s.object_initial_pose_y_min,
                         s.object_initial_pose_y_max >>,
          rotation |-> 0,
          ensure_object_boundary_in_range |-> FALSE,
          ensure_valid_placement |-> FALSE,
          z_offset |-> 0 ]

\* lines 351-383: density, cube, placement sampler and task model
BuildScene(s, d) ==
    LET cube == Cube(s, d)
    IN  [s EXCEPT !.object_density_val = d,
                  !.cube = cube,
                  !.placement_initializer = PlacementInitializer(s, cube),
                  !.model = [ bin_pos |-> s.table_offset,
                              bin_full_size |-> s.table_full_size,
                              bin_friction |-> s.table_friction,
                              cube |-> cube ] ]

\* LoadModelPrefix without the call of init_box_size (line 300)
LoadModelPrefix_no_profile(s) ==
    UNION { SampleSize(t) :
      t \in UNION { SampleTable(c) :
        c \in UNION { SampleController(r) :
          r \in UNION { ResolveOcclusion(l) : l \in LoadRobots(s) } } } }

\* LoadModelPrefix with init_box_size run before the mode is resolved
LoadModelPrefix_profile_first(s) ==
    UNION { SampleSize(t) :
      t \in UNION { SampleTable(c) :
        c \in UNION { SampleController(r) :
          r \in UNION { ResolveOcclusion(init_box_size(l)) : l \in LoadRobots(s) } } } }

\* lines 293-350: _load_model up to the density draw
LoadModelPrefix(s) ==
    UNION { SampleSize(t) :
      t \in UNION { SampleTable(c) :
        c \in UNION { SampleController(init_box_size(r)) :
          r \in UNION { ResolveOcclusion(l) : l \in LoadRobots(s) } } } }

\* ---------------------------------------------------------- _reset_internal

\* _reset_internal: the placement sampler draws the cube's position in its
\* ranges (x, y relative to the sampler's reference position)
ResetInternal(s) ==
    LET p == s.placement_initializer
    IN  { [s EXCEPT !.cube_pos = <<x, y>>] :
            x \in Uniform(Min(p.x_range[1], p.x_range[2]),
                          Max(p.x_range[1], p.x_range[2])),
            y \in Uniform(Min(p.y_range[1], p.y_range[2]),
                          Max(p.y_range[1], p.y_range[2])) }

\* ------------------------------------------------------------------- reset

\* A hard reset: _load_model (which loads the robots first), then
\* _reset_internal.  The outcomes are the instance as the reset leaves it and
\* whether the reset raised (at line 351, leaving what lines 293-350 wrote).
reset(s) ==
    UNION { IF DensityDraws(p) = {}
            THEN { [self |-> p, raised |-> TRUE] }
            ELSE UNION { { [self |-> q, raised |-> FALSE] :
                             q \in ResetInternal(BuildScene(p, d)) } :
                         d \in DensityDraws(p) } :
            p \in LoadModelPrefix(s) }

\* -------------------------------------------------- attribute assignments

\* the randomizable quantities: the pair of attributes holding each one's range
Quantities ==
    { <<"object_size_x_min", "object_size_x_max">>,
      <<"object_size_y_min", "object_size_y_max">>,
      <<"object_size_z_min", "object_size_z_max">>,
      <<"object_to_wall_dist_min", "object_to_wall_dist_max">>,
      <<"object_density_min", "object_density_max">>,
      <<"table_friction_min", "table_friction_max">>,
      <<"gripper_friction_min", "gripper_friction_max">>,
      <<"table_offset_x_min", "table_offset_x_max">>,
      <<"table_offset_z_min", "table_offset_z_max">>,
      <<"controller_max_translation_min", "controller_max_translation_max">>,
      <<"controller_max_rotation_min", "controller_max_rotation_max">> }

\* the range attributes a caller (the adaptive randomization) assigns
RangeAttrs ==
    UNION { {q[1], q[2]} : q \in Quantities }

\* the values assigned: the attribute's value at construction in 'ground'
\* mode, or that value raised by one step
AttrValues(a) ==
    LET d == Construct("ground", FALSE, <<>>)[a]
        step == IF a \in {"object_density_min", "object_density_max"}
                THEN 1 ELSE 200
    IN  { d, d + step }

\* ------------------------------------------------------------ state machine

\* the constructor arguments tried: each mode string without random occlusion,
\* and random occlusion with occlusion_type left at its default, 'ground'
ConstructorArgs ==
    { <<m, FALSE>> : m \in ModeStrings } \cup { <<"ground", TRUE>> }

Init ==
    \E args \in ConstructorArgs, keys \in SUBSET ControllerKeys :
      \E o \in reset(Construct(args[1], args[2],
                     [k \in keys |-> IF k = "max_translation" THEN 100 ELSE 1000])) :
        /\ self = o.self
        /\ requested_mode = args[1]
        /\ outcome = "ok"
        /\ back_to_back = FALSE
        /\ nassign = 0

\* env.reset()
Reset ==
    \E o \in reset(self) :
      /\ self' = o.self
      /\ outcome' = IF o.raised THEN "ValueError" ELSE "ok"
      /\ back_to_back' = (outcome = "ok" /\ ~o.raised)
      /\ UNCHANGED <<requested_mode, nassign>>

\* setattr(env, a, v) on a range attribute
SetAttr ==
    /\ nassign < MaxAssign
    /\ \E a \in RangeAttrs : \E v \in AttrValues(a) :
         /\ v # self[a]
         /\ self' = [self EXCEPT ![a] = v]
    /\ outcome' = "stale"
    /\ back_to_back' = FALSE
    /\ nassign' = nassign + 1
    /\ UNCHANGED requested_mode

\* env.use_random_occlusion = b
SetRandomOcclusion ==
    /\ nassign < MaxAssign
    /\ self' = [self EXCEPT !.use_random_occlusion = ~self.use_random_occlusion]
    /\ outcome' = "stale"
    /\ back_to_back' = FALSE
    /\ nassign' = nassign + 1
    /\ UNCHANGED requested_mode

Next == Reset \/ SetAttr \/ SetRandomOcclusion

Spec == Init /\ [][Next]_vars

\* ------------------------------------------------------------------ claims

\* the state is the one a completed reset left
AfterReset == outcome = "ok"

\* the object's half extent along x, as handed to the box
objectHalfExtentX == self.cube.size[1]

\* the clearance to the boundary that the placement drawn by the reset realizes
sampledClearance ==
    (self.table_full_size[1] \div 2 - objectHalfExtentX) - self.cube_pos[1]

\* (min, max, current) of every quantity that has a current value
Current ==
    { <<self.object_size_x_min, self.object_size_x_max, self.object_size_x_val>>,
      <<self.object_size_y_min, self.object_size_y_max, self.object_size_y_val>>,
      <<self.object_size_z_min, self.object_size_z_max, self.object_size_z_val>>,
      <<self.object_density_min, self.object_density_max, self.object_density_val>>,
      <<self.table_friction_min, self.table_friction_max, self.table_friction[1]>>,
      <<self.gripper_friction_min, self.gripper_friction_max, self.gripper_friction[1]>>,
      <<self.table_offset_x_min, self.table_offset_x_max, self.table_offset[1]>>,
      <<self.table_offset_z_min, self.table_offset_z_max, self.table_offset[3]>> }
    \cup { <<self.controller_max_translation_min, self.controller_max_translation_max,
             self.controller_config[k]>> :
             k \in DOMAIN self.controller_config \cap {"max_translation"} }
    \cup { <<self.controller_max_rotation_min, self.controller_max_rotation_max,
             self.controller_config[k]>> :
             k \in DOMAIN self.controller_config \cap {"max_rotation"} }

\* the scene configuration of the episode
Scene(s) ==
    [ size |-> <<s.object_size_x_val, s.object_size_y_val, s.object_size_z_val>>,
      density |-> s.object_density_val,
      table_friction |-> s.table_friction,
      table_offset |-> s.table_offset,
      gripper_friction |-> s.gripper_friction,
      controller |-> s.controller_config,
      x_range |-> s.placement_initializer.x_range,
      y_range |-> s.placement_initializer.y_range ]

\* the per-episode values of the instance
PerEpisode(s) ==
    [ occlusion_type |-> s.occlusion_type,
      size_ranges |-> << s.object_size_x_min, s.object_size_x_max,
                         s.object_size_y_min, s.object_size_y_max,
                         s.object_size_z_min, s.object_size_z_max >>,
      clearance_range |-> << s.object_to_wall_dist_min, s.object_to_wall_dist_max >>,
      table_friction |-> s.table_friction,
      table_offset |-> s.table_offset,
      controller |-> s.controller_config,
      size |-> <<s.object_size_x_val, s.object_size_y_val, s.object_size_z_val>>,
      placement_initializer |-> s.placement_initializer,
      model |-> s.model ]

\* every range a caller configures (those init_box_size does not overwrite) is fixed
FixedRanges(s) ==
    /\ s.object_density_min = s.object_density_max
    /\ s.table_friction_min = s.table_friction_max
    /\ s.gripper_friction_min = s.gripper_friction_max
    /\ s.table_offset_x_min = s.table_offset_x_max
    /\ s.table_offset_z_min = s.table_offset_z_max
    /\ s.controller_max_translation_min = s.controller_max_translation_max
    /\ s.controller_max_rotation_min = s.controller_max_rotation_max
    /\ s.object_initial_pose_y_min = s.object_initial_pose_y_max

\* C1 (as claimed): no reset completes with an inverted range (min > max)
\* registered for any randomizable quantity: such a configuration is rejected
\* before anything is sampled.
C1_InvertedRangeRejected ==
    AfterReset => \A q \in Quantities : self[q[1]] <= self[q[2]]

C4_FixedModeIsRequested ==
    AfterReset =>
      IF self.use_random_occlusion
      THEN self.occlusion_type \in RecognizedModes
      ELSE self.occlusion_type = requested_mode

\* C5 (as claimed): after every reset the current value of each quantity lies
\* within its registered [min, max]; when min = max it is that value.
C5_CurrentWithinRange ==
    AfterReset =>
      \A c \in Current : /\ c[1] <= c[3] /\ c[3] <= c[2]
                         /\ c[1] = c[2] => c[3] = c[1]

\* C6: two resets back to back with fixed ranges and random occlusion disabled
\* give the same scene configuration.
C6_FixedRangesRepeat ==
    [][ ( /\ outcome = "ok" /\ outcome' = "ok"
          /\ FixedRanges(self) /\ ~self.use_random_occlusion )
        => Scene(self') = Scene(self) ]_vars

\* C6 witness: a second reset in a row, with fixed ranges, in 'none' mode,
\* after an assignment
C6_Witness ==
    /\ AfterReset /\ back_to_back
    /\ FixedRanges(self) /\ ~self.use_random_occlusion
    /\ nassign >= 1
    /\ self.occlusion_type = "none"

\* C7 (as claimed): a reset that fails leaves every per-episode value of the
\* instance as it was before the reset.
C7_FailedResetChangesNothing ==
    [][ outcome' = "ValueError" => PerEpisode(self') = PerEpisode(self) ]_vars

\* C8 (as claimed): no scene is configured from a mode string that is not
\* one of ground, side, none.
C8_UnrecognizedModeRejected ==
    AfterReset => self.occlusion_type \in RecognizedModes

\* C8 (amended): a mode string other than ground and side is not rejected: the
\* reset completes with the profile of 'none' (x and z size 0.06, y size 0.20,
\* clearance range [0.05, 0.10]) and the material of the non-ground modes.
C8_OtherModeGetsNoneProfile ==
    (outcome # "stale" /\ self.occlusion_type \notin {"ground", "side"}) =>
      /\ self.object_size_x_val = 600
      /\ self.object_size_y_val = 2000
      /\ self.object_size_z_val = 600
      /\ self.object_to_wall_dist_min = 500
      /\ self.object_to_wall_dist_max = 1000
      /\ outcome = "ok" => self.cube.material = "bluewood_mat"
      /\ outcome = "ValueError" => DensityDraws(self) = {}

\* C8 witness: a scene configured from the unrecognized string
C8_Witness ==
    /\ AfterReset
    /\ self.occlusion_type = "top"
    /\ self.cube.size = <<300, 1000, 300>>

\* C9: in every reset the size is sampled from, and the placement x-range is
\* built from, the ranges of the mode that this reset resolved.
C9_RangesOfThisEpisode ==
    outcome # "stale" =>
      LET p == init_box_size(self)
      IN  /\ self.object_size_x_val \in Uniform(p.object_size_x_min, p.object_size_x_max)
          /\ self.object_size_y_val \in Uniform(p.object_size_y_min, p.object_size_y_max)
          /\ self.object_size_z_val \in Uniform(p.object_size_z_min, p.object_size_z_max)
          /\ outcome = "ok" =>
               /\ self.cube.size[1] = p.object_size_x_val \div 2
               /\ self.placement_initializer.x_range =
                    << self.table_full_size[1] \div 2 - p.object_size_x_val \div 2
                         - p.object_to_wall_dist_max,
                       self.table_full_size[1] \div 2 - p.object_size_x_val \div 2
                         - p.object_to_wall_dist_min >>

\* C9 witness: a later reset resolved a mode other than the one whose profile
\* was installed at construction
C9_Witness ==
    /\ AfterReset /\ back_to_back
    /\ requested_mode = "ground"
    /\ self.occlusion_type = "side"

\* C10: a reset writes a controller limit only if the controller configuration
\* declares its key, each key on its own; it adds no key, and an absent key
\* raises no error.
C10_ControllerLimits ==
    [][ outcome' # "stale" =>
        LET cc == self.controller_config
            cc2 == self'.controller_config
        IN  /\ DOMAIN cc2 = DOMAIN cc
            /\ "max_translation" \in DOMAIN cc =>
                 cc2["max_translation"] \in Uniform(self.controller_max_translation_min,
                                                    self.controller_max_translation_max)
            /\ "max_rotation" \in DOMAIN cc =>
                 cc2["max_rotation"] \in Uniform(self.controller_max_rotation_min,
                                                 self.controller_max_rotation_max)
            /\ outcome' = "ValueError" => DensityDraws(self) = {} ]_vars

\* C10 witness: the rotation limit was sampled from a widened range while the
\* translation key is absent
C10_Witness ==
    /\ AfterReset
    /\ DOMAIN self.controller_config = {"max_rotation"}
    /\ self.controller_config["max_rotation"] = 2100

\* the fixed profile of a mode: x, y, z size and clearance min, max
ProfileConstants(mode) ==
    IF mode = "ground" THEN [x |-> 1500, y |-> 2000, z |-> 500, cmin |-> 0, cmax |-> 0]
    ELSE IF mode = "side" THEN [x |-> 600, y |-> 2000, z |-> 600, cmin |-> 0, cmax |-> 0]
    ELSE [x |-> 600, y |-> 2000, z |-> 600, cmin |-> 500, cmax |-> 1000]

\* C11: every reset overwrites the size x/y/z and clearance ranges with the
\* fixed profile of the mode it resolved, whatever they held before; so the
\* sampled size is the profile constant of the mode, strictly positive, and
\* the placement x-range a reset builds has lower bound <= upper bound.
C11_ProfileOverwritesRanges ==
    outcome # "stale" =>
      LET p == ProfileConstants(self.occlusion_type)
      IN  /\ self.object_size_x_min = p.x /\ self.object_size_x_max = p.x
          /\ self.object_size_y_min = p.y /\ self.object_size_y_max = p.y
          /\ self.object_size_z_min = p.z /\ self.object_size_z_max = p.z
          /\ self.object_to_wall_dist_min = p.cmin
          /\ self.object_to_wall_dist_max = p.cmax
          /\ self.object_size_x_val = p.x /\ self.object_size_x_val > 0
          /\ self.object_size_y_val = p.y /\ self.object_size_y_val > 0
          /\ self.object_size_z_val = p.z /\ self.object_size_z_val > 0
          /\ outcome = "ok" =>
               self.placement_initializer.x_range[1]
                 <= self.placement_initializer.x_range[2]

\* C11 witness: a reset that followed the assignment of a size or clearance
\* range attribute.  Exactly one assignment was made; it was not the random
\* occlusion flag (random occlusion is constructed only with 'ground') and
\* not a range that resets leave alone (all of those hold their values of
\* construction), so it gave a size or clearance range attribute a value
\* other than the profile's, which the reset replaced.
C11_Witness ==
    /\ AfterReset
    /\ nassign = 1
    /\ requested_mode = "none" /\ ~self.use_random_occlusion
    /\ \A q \in Quantities \ { <<"object_size_x_min", "object_size_x_max">>,
                               <<"object_size_y_min", "object_size_y_max">>,
                               <<"object_size_z_min", "object_size_z_max">>,
                               <<"object_to_wall_dist_min", "object_to_wall_dist_max">> } :
         /\ self[q[1]] = Construct("none", FALSE, <<>>)[q[1]]
         /\ self[q[2]] = Construct("none", FALSE, <<>>)[q[2]]
    /\ self.placement_initializer.x_range = <<950, 1450>>

====
